---- MODULE Spec2Model ----
(***************************************************************************)
(* Model of the video frame extractor page (src/app/page.tsx, HomePage).   *)
(*                                                                         *)
(* State: the React state of the component (videos, images, isProcessing), *)
(* the shared ffmpeg.wasm engine (loaded flag, virtual file system), the   *)
(* browser's blob store, and one record per invocation of handleProcess    *)
(* and of handleDownloadAll holding the values its closure and locals keep *)
(* across its await points.  An action is one event handler, or the        *)
(* synchronous segment of an async handler that runs between two awaits.   *)
(***************************************************************************)
EXTENDS Integers, Sequences, FiniteSets, TLC

VARIABLES
    videos,        \* useState<IVideoInput[]>          page.tsx:20
    images,        \* useState<IImageData[]>           page.tsx:21
    isProcessing,  \* useState<boolean>                page.tsx:22
    ffmpeg,        \* the engine made by createFFmpeg  page.tsx:24-31
    blobs,         \* object URLs made by URL.createObjectURL, with their bytes
    calls,         \* the handleProcess invocations of this page lifetime
    downloads,     \* the handleDownloadAll invocations of this page lifetime
    uuids,         \* number of uuidv4() values drawn so far
    events         \* number of user events (edits and clicks) so far

vars == <<videos, images, isProcessing, ffmpeg, blobs, calls, downloads,
          uuids, events>>

(***************************************************************************)
(* Bounds of the model.                                                    *)
(***************************************************************************)
MaxVideos == 2     \* longest input list the user builds
MaxFrame  == 1     \* largest frame number typed; a video has MaxFrame frames
MaxEvents == 5     \* user events (edits and clicks) in one page lifetime
MaxUrlLen == 4     \* longest URL given to the filename derivation alone

(***************************************************************************)
(* The environment: what the network answers for a URL, and what the       *)
(* engine does with a file.  Bytes are tuples: <<"video", url>> is the     *)
(* video served at url, <<"html", url>> a body that is no video,           *)
(* <<"webp", url, n>> frame n of that video as an image, <<>> no bytes.    *)
(***************************************************************************)
UrlClip == "https://x.com/a/clip.mp4"
UrlMov  == "https://x.com/a.b.c.mov"
UrlCopy == "https://y.com/b/clip.mp4"
UrlGone == "https://x.com/noext"
UrlDown == "https://down.example/v.mp4"
UrlPage == ""

Urls == {UrlClip, UrlMov, UrlCopy, UrlGone, UrlDown}

\* fetch(url) rejects: the request cannot be completed.
Unreachable(url) == url = UrlDown

\* Response.ok of the response fetch(url) resolves to.  The empty URL is a
\* relative reference to the page itself, which is served with status 200.
ResponseOk(url) == url # UrlGone

\* The body of the response.
ResponseBody(url) ==
    IF url \in {UrlClip, UrlMov, UrlCopy} THEN <<"video", url>>
    ELSE <<"html", url>>

IsVideo(bytes) == Len(bytes) = 2 /\ bytes[1] = "video"

\* Number of frames of a video file.
FrameCount(bytes) == MaxFrame

(***************************************************************************)
(* Filename derivation, page.tsx:97-102.                                   *)
(***************************************************************************)
Char(s, k) == SubSeq(s, k, k)

SetMax(S) == CHOOSE x \in S : \A y \in S : y <= x
SetMin(S) == CHOOSE x \in S : \A y \in S : x <= y

\* String.prototype.lastIndexOf: zero-based, -1 when absent.
LastIndexOf(s, ch) ==
    LET P == {k \in 1..Len(s) : Char(s, k) = ch}
    IN  IF P = {} THEN -1 ELSE SetMax(P) - 1

\* String.prototype.substring(start), zero-based start.
Substring(s, start) == SubSeq(s, start + 1, Len(s))

\* name.replace(/\.[^/.]+$/, ""): the leftmost '.' that is followed, up to
\* the end of the string, by one or more characters other than '/' and '.'.
StripExtension(name) ==
    LET M == {k \in 1..Len(name) :
                /\ Char(name, k) = "."
                /\ k < Len(name)
                /\ \A j \in (k + 1)..Len(name) : Char(name, j) \notin {"/", "."}}
    IN  IF M = {} THEN name ELSE SubSeq(name, 1, SetMin(M) - 1)

\* /\..*$/ instead: everything from the first '.' on.
StripFromFirstDot(name) ==
    LET M == {k \in 1..Len(name) : Char(name, k) = "."}
    IN  IF M = {} THEN name ELSE SubSeq(name, 1, SetMin(M) - 1)

VideoFileName(url) == Substring(url, LastIndexOf(url, "/") + 1)

ImageFileNameFirstDot(url) == StripFromFirstDot(VideoFileName(url)) \o ".webp"

ImageFileName(url) == StripExtension(VideoFileName(url)) \o ".webp"

(***************************************************************************)
(* The engine, as far as the page uses it.                                 *)
(***************************************************************************)
\* `${uuidv4()}.mp4` and `${uuidv4()}.webp`: the k-th uuid drawn.
InputFileName(k)  == <<k, "mp4">>
OutputFileName(k) == <<k, "webp">>

FsWriteFile(fs, name, bytes) ==
    [f \in DOMAIN fs \cup {name} |-> IF f = name THEN bytes ELSE fs[f]]

FsUnlink(fs, name) == [f \in DOMAIN fs \ {name} |-> fs[f]]

\* ffmpeg.run("-i", in, "-vf", select=eq(n,frame), "-vframes", "1", out).
\* run() resolves whatever ffmpeg's exit status is.  The result is the file
\* system afterwards: a decodable input with the frame in range gives the
\* image; an input that is no video gives no output file; a frame number
\* past the last frame selects nothing, and the engine then either leaves
\* no output file or leaves the empty file its muxer had already opened.
RunOutcomes(fs, inName, outName, frame) ==
    LET data == fs[inName]
    IN  IF ~IsVideo(data) THEN {fs}
        ELSE IF frame < FrameCount(data)
             THEN {FsWriteFile(fs, outName, <<"webp", data[2], frame>>)}
             ELSE {fs, FsWriteFile(fs, outName, <<>>)}

(***************************************************************************)
(* Initial state: the state after the first render on the client.          *)
(***************************************************************************)
Init ==
    /\ videos = <<[url |-> UrlPage, frame |-> 0]>>
    /\ images = <<>>
    /\ isProcessing = FALSE
    /\ ffmpeg = [loaded |-> FALSE, loads |-> 0, fs |-> <<>>]
    /\ blobs = <<>>
    /\ calls = <<>>
    /\ downloads = <<>>
    /\ uuids = 0
    /\ events = 0

(***************************************************************************)
(* Editing the input list.                                                 *)
(***************************************************************************)
\* Array.prototype.splice(start, deleteCount) on a copy: its return value,
\* the array of the removed elements (start is zero-based).
SpliceResult(arr, start, deleteCount) ==
    LET last == IF start + deleteCount < Len(arr) THEN start + deleteCount
                ELSE Len(arr)
    IN  SubSeq(arr, start + 1, last)

\* removeVideoInput(index), page.tsx:34-36: the state becomes what splice
\* returns.
RemoveVideoInput(index) ==
    /\ events < MaxEvents
    /\ index \in 0..(Len(videos) - 1)
    /\ videos' = SpliceResult(videos, index, 1)
    /\ events' = events + 1
    /\ UNCHANGED <<images, isProcessing, ffmpeg, blobs, calls, downloads, uuids>>

\* An edit that assigns to the element of the array in place, so that the
\* array a running handleProcess iterates over changes with it.
HandleVideoChangeInPlace(index, field, value) ==
    /\ events < MaxEvents
    /\ index \in 0..(Len(videos) - 1)
    /\ videos[index + 1][field] # value
    /\ videos' = [videos EXCEPT ![index + 1][field] = value]
    /\ calls' = [n \in 1..Len(calls) |->
                    IF calls[n].pc \in {"load", "fetch", "body", "run"}
                       /\ index < Len(calls[n].videos)
                    THEN [calls[n] EXCEPT !.videos[index + 1][field] = value]
                    ELSE calls[n]]
    /\ events' = events + 1
    /\ UNCHANGED <<images, isProcessing, ffmpeg, blobs, downloads, uuids>>

\* handleVideoChange(index, field, value), page.tsx:39-53.  The inputs fire
\* onChange when their value changes; the frame field holds Number(value),
\* here a whole number from 0 to MaxFrame.
HandleVideoChange(index, field, value) ==
    /\ events < MaxEvents
    /\ index \in 0..(Len(videos) - 1)
    /\ videos[index + 1][field] # value
    /\ videos' = [i \in 1..Len(videos) |->
                    IF i - 1 = index THEN [videos[i] EXCEPT ![field] = value]
                    ELSE videos[i]]
    /\ events' = events + 1
    /\ UNCHANGED <<images, isProcessing, ffmpeg, blobs, calls, downloads, uuids>>

\* The Add Video button, page.tsx:182-187.
AddVideo ==
    /\ events < MaxEvents
    /\ Len(videos) < MaxVideos
    /\ videos' = Append(videos, [url |-> UrlPage, frame |-> 0])
    /\ events' = events + 1
    /\ UNCHANGED <<images, isProcessing, ffmpeg, blobs, calls, downloads, uuids>>

(***************************************************************************)
(* handleProcess, page.tsx:56-117.  A call record keeps what one           *)
(* invocation holds across its awaits: pc (the await it is suspended at),  *)
(* videos (the list its closure captured), i (the one-based position of    *)
(* the loop), newImages, the two scratch file names of the current item;   *)
(* and, as history, submitted (the input list as it was at the click),     *)
(* alerts (one entry per alert(...) call: the URL in its message and the   *)
(* loop position that raised it), fetched (the positions fetch was called  *)
(* for, in call order) and settled (the positions whose loop body has      *)
(* ended, in order).                                                       *)
(***************************************************************************)
NoName == <<>>

NewCall(list) ==
    [pc |-> "load", videos |-> list, i |-> 0, newImages |-> <<>>,
     inName |-> NoName, outName |-> NoName, submitted |-> list,
     alerts |-> <<>>, fetched |-> <<>>, settled |-> <<>>]

\* A Process button that is never disabled.
NeverDisabled == FALSE

\* The Process button is disabled while isProcessing, page.tsx:188-194.
\* The click handler sets the flag before its first await and React
\* renders the update before the next event is delivered.
ProcessDisabled == isProcessing

\* unshift instead of push; and an assignment instead of push.
Unshift(list, image) == <<image>> \o list

Replace(list, image) == <<image>>

\* newImages.push(image), page.tsx:104.
Push(list, image) == Append(list, image)

\* The head of the for-of loop, page.tsx:67: take the next video and call
\* fetch for it (line 69), or leave the loop (lines 115-116).
NextItem(c) ==
    IF c.i + 1 > Len(c.videos)
    THEN [c EXCEPT !.pc = "done", !.i = c.i + 1,
                   !.inName = NoName, !.outName = NoName]
    ELSE [c EXCEPT !.pc = "fetch", !.i = c.i + 1,
                   !.inName = NoName, !.outName = NoName,
                   !.fetched = Append(@, c.i + 1)]

\* A catch block that throws the error on; and one that swallows it.
CatchRethrow(c) == [c EXCEPT !.pc = "rejected", !.settled = Append(@, c.i)]

CatchSilent(c) == NextItem([c EXCEPT !.settled = Append(@, c.i)])

\* The catch block, page.tsx:109-112, and the loop going on after it.
Catch(c) ==
    NextItem([c EXCEPT !.alerts = Append(@, [at |-> c.i,
                                               url |-> c.videos[c.i].url]),
                       !.settled = Append(@, c.i)])

\* Results added to the held ones instead of replacing them.
ConcatImages(held, newImages) == held \o newImages

\* setImages(newImages), page.tsx:115: the new value of the images state.
SetImages(held, newImages) == newImages

\* Store the record of invocation n; an invocation that left the loop has
\* called setImages(newImages) and setIsProcessing(false).
Commit(n, c) ==
    /\ calls' = IF n > Len(calls) THEN Append(calls, c)
                ELSE [calls EXCEPT ![n] = c]
    /\ IF c.pc = "done"
       THEN images' = SetImages(images, c.newImages) /\ isProcessing' = FALSE
       ELSE images' = images /\ isProcessing' = (n > Len(calls) \/ isProcessing)

\* A click on Process: lines 57-65, and lines 67-69 when the engine is
\* already loaded (no await is reached before the loop then).
HandleProcess ==
    /\ ~ProcessDisabled
    /\ events < MaxEvents
    /\ events' = events + 1
    /\ IF ffmpeg.loaded
       THEN /\ Commit(Len(calls) + 1, NextItem(NewCall(videos)))
            /\ UNCHANGED ffmpeg
       ELSE /\ Commit(Len(calls) + 1, NewCall(videos))
            /\ ffmpeg' = [ffmpeg EXCEPT !.loads = @ + 1]
    /\ UNCHANGED <<videos, downloads, blobs, uuids>>

\* await ffmpeg.load() resolves, line 64.
LoadResolve(n) ==
    /\ calls[n].pc = "load"
    /\ ffmpeg' = [ffmpeg EXCEPT !.loaded = TRUE]
    /\ Commit(n, NextItem(calls[n]))
    /\ UNCHANGED <<videos, downloads, blobs, uuids, events>>

\* await ffmpeg.load() rejects: the exception leaves handleProcess.
LoadReject(n) ==
    /\ calls[n].pc = "load"
    /\ Commit(n, [calls[n] EXCEPT !.pc = "rejected"])
    /\ UNCHANGED <<videos, downloads, ffmpeg, blobs, uuids, events>>

\* await fetch(video.url) resolves with a response, line 69; the code then
\* calls arrayBuffer() on it whatever its status, line 70.
FetchResolve(n) ==
    /\ calls[n].pc = "fetch"
    /\ ~Unreachable(calls[n].videos[calls[n].i].url)
    /\ Commit(n, [calls[n] EXCEPT !.pc = "body"])
    /\ UNCHANGED <<videos, downloads, ffmpeg, blobs, uuids, events>>

\* await fetch(video.url) rejects.
FetchReject(n) ==
    /\ calls[n].pc = "fetch"
    /\ Unreachable(calls[n].videos[calls[n].i].url)
    /\ Commit(n, Catch(calls[n]))
    /\ UNCHANGED <<videos, downloads, ffmpeg, blobs, uuids, events>>

\* await videoResponse.arrayBuffer() resolves, line 70; lines 73-80 write
\* the bytes under a fresh name and start ffmpeg.run.
BodyResolve(n) ==
    LET c    == calls[n]
        data == ResponseBody(c.videos[c.i].url)
        in   == InputFileName(uuids + 1)
        out  == OutputFileName(uuids + 2)
    IN  /\ c.pc = "body"
        /\ uuids' = uuids + 2
        /\ ffmpeg' = [ffmpeg EXCEPT !.fs = FsWriteFile(@, in, data)]
        /\ Commit(n, [c EXCEPT !.pc = "run", !.inName = in, !.outName = out])
        /\ UNCHANGED <<videos, downloads, blobs, events>>

\* await ffmpeg.run(...) resolves, line 80; lines 91-108 read the output,
\* make the object URL, push the image and unlink both files.  readFile
\* throws when the output file does not exist, which enters the catch.
RunResolve(n) ==
    LET c == calls[n]
        v == c.videos[c.i]
    IN  /\ c.pc = "run"
        /\ \E fs \in RunOutcomes(ffmpeg.fs, c.inName, c.outName, v.frame) :
             IF c.outName \in DOMAIN fs
             THEN LET imageUrl == <<"blob", n, c.i>>
                      image == [url |-> imageUrl,
                                filename |-> ImageFileName(v.url)]
                  IN  /\ blobs' = [b \in DOMAIN blobs \cup {imageUrl} |->
                                     IF b = imageUrl THEN fs[c.outName]
                                     ELSE blobs[b]]
                      /\ ffmpeg' = [ffmpeg EXCEPT !.fs =
                                      FsUnlink(FsUnlink(fs, c.inName), c.outName)]
                      /\ Commit(n, NextItem(
                            [c EXCEPT !.newImages = Push(@, image),
                                      !.settled = Append(@, c.i)]))
             ELSE /\ blobs' = blobs
                  /\ ffmpeg' = [ffmpeg EXCEPT !.fs = fs]
                  /\ Commit(n, Catch(c))
        /\ UNCHANGED <<videos, downloads, uuids, events>>

(***************************************************************************)
(* handleDownloadAll, page.tsx:120-147.  A download record keeps pc, the   *)
(* images its closure captured, k (the one-based position of the loop),    *)
(* zip (the entries of the JSZip object, in order) and, once the link was  *)
(* clicked, archive (the entries of the generated file).                   *)
(***************************************************************************)
\* A zip that keeps the first entry of a name and drops later ones.
ZipFileKeepFirst(zip, filename, data) ==
    IF \E e \in 1..Len(zip) : zip[e].name = filename THEN zip
    ELSE Append(zip, [name |-> filename, data |-> data])

\* zip.file(filename, data): JSZip keeps its entries in an object keyed by
\* name, so a name already present keeps its place and takes the new data.
ZipFile(zip, filename, data) ==
    IF \E e \in 1..Len(zip) : zip[e].name = filename
    THEN [e \in 1..Len(zip) |->
            IF zip[e].name = filename THEN [name |-> filename, data |-> data]
            ELSE zip[e]]
    ELSE Append(zip, [name |-> filename, data |-> data])

\* The head of the for-of loop, line 123: fetch the next image (line 127)
\* or call zip.generateAsync (line 138).
NextImage(d) ==
    IF d.k + 1 > Len(d.images)
    THEN [d EXCEPT !.pc = "generate", !.k = d.k + 1]
    ELSE [d EXCEPT !.pc = "read", !.k = d.k + 1]

\* A click on Download All as ZIP, shown while images is not empty
\* (lines 196, 211-216).
HandleDownloadAll ==
    /\ Len(images) > 0
    /\ events < MaxEvents
    /\ events' = events + 1
    /\ downloads' = Append(downloads,
          NextImage([pc |-> "read", images |-> images, k |-> 0,
                     zip |-> <<>>, archive |-> <<>>, offered |-> FALSE]))
    /\ UNCHANGED <<videos, images, isProcessing, ffmpeg, blobs, calls, uuids>>

\* The awaits of lines 127-131 resolve with the bytes behind the object
\* URL; line 134 adds them to the zip.
ReadResolve(d) ==
    LET r == downloads[d]
        image == r.images[r.k]
    IN  /\ r.pc = "read"
        /\ downloads' = [downloads EXCEPT ![d] =
              NextImage([r EXCEPT !.zip =
                  ZipFile(@, image.filename, blobs[image.url])])]
        /\ UNCHANGED <<videos, images, isProcessing, ffmpeg, blobs, calls,
                       uuids, events>>

\* A read failure caught per image, the loop going on without that image.
ReadSkip(d) ==
    /\ downloads[d].pc = "read"
    /\ downloads' = [downloads EXCEPT ![d] = NextImage(downloads[d])]
    /\ UNCHANGED <<videos, images, isProcessing, ffmpeg, blobs, calls, uuids,
                   events>>

\* One of the awaits of lines 127-131 rejects: the exception leaves
\* handleDownloadAll.
ReadReject(d) ==
    /\ downloads[d].pc = "read"
    /\ downloads' = [downloads EXCEPT ![d].pc = "rejected"]
    /\ UNCHANGED <<videos, images, isProcessing, ffmpeg, blobs, calls, uuids,
                   events>>

\* await zip.generateAsync resolves, line 138; lines 141-146 offer the
\* file as images.zip.
GenerateResolve(d) ==
    /\ downloads[d].pc = "generate"
    /\ downloads' = [downloads EXCEPT ![d].pc = "done",
                                      ![d].archive = downloads[d].zip,
                                      ![d].offered = TRUE]
    /\ UNCHANGED <<videos, images, isProcessing, ffmpeg, blobs, calls, uuids,
                   events>>

\* await zip.generateAsync rejects.
GenerateReject(d) ==
    /\ downloads[d].pc = "generate"
    /\ downloads' = [downloads EXCEPT ![d].pc = "rejected"]
    /\ UNCHANGED <<videos, images, isProcessing, ffmpeg, blobs, calls, uuids,
                   events>>

(***************************************************************************)
(* The page.                                                               *)
(***************************************************************************)
Next ==
    \/ AddVideo
    \/ \E index \in 0..(MaxVideos - 1) : RemoveVideoInput(index)
    \/ \E index \in 0..(MaxVideos - 1), value \in Urls :
          HandleVideoChange(index, "url", value)
    \/ \E index \in 0..(MaxVideos - 1), value \in 0..MaxFrame :
          HandleVideoChange(index, "frame", value)
    \/ HandleProcess
    \/ \E n \in 1..Len(calls) : LoadResolve(n)
    \/ \E n \in 1..Len(calls) : LoadReject(n)
    \/ \E n \in 1..Len(calls) : FetchResolve(n)
    \/ \E n \in 1..Len(calls) : FetchReject(n)
    \/ \E n \in 1..Len(calls) : BodyResolve(n)
    \/ \E n \in 1..Len(calls) : RunResolve(n)
    \/ HandleDownloadAll
    \/ \E d \in 1..Len(downloads) : ReadResolve(d)
    \/ \E d \in 1..Len(downloads) : ReadReject(d)
    \/ \E d \in 1..Len(downloads) : GenerateResolve(d)
    \/ \E d \in 1..Len(downloads) : GenerateReject(d)

Spec == Init /\ [][Next]_vars

(***************************************************************************)
(* Vocabulary of the properties.                                           *)
(***************************************************************************)
Range(seq) == {seq[k] : k \in 1..Len(seq)}

UpTo(k) == [j \in 1..k |-> j]

\* An input the pipeline can serve: reachable, success status, a video body,
\* and a frame index inside the video.
ValidInput(v) ==
    /\ ~Unreachable(v.url)
    /\ ResponseOk(v.url)
    /\ IsVideo(ResponseBody(v.url))
    /\ v.frame < FrameCount(ResponseBody(v.url))

\* The invocation has returned or thrown.
Ended(c) == c.pc \in {"done", "rejected"}

\* The invocation threw out of ffmpeg.load(), before the loop.
LoadFailed(c) == c.pc = "rejected" /\ c.i = 0

\* The places of newImages holding the image made from position i of
\* invocation n, and the alerts raised for that position.
ImagesFrom(n, i) ==
    {k \in 1..Len(calls[n].newImages) :
        calls[n].newImages[k].url = <<"blob", n, i>>}

AlertsFor(n, i) ==
    {k \in 1..Len(calls[n].alerts) : calls[n].alerts[k].at = i}

\* The scratch files are those named by a uuid.
ScratchFiles == DOMAIN ffmpeg.fs

(***************************************************************************)
(* C1.  Failure isolation: an invocation that entered the loop ends only   *)
(* after having called fetch for every input of its list, whichever inputs *)
(* failed; and when it is done its results hold exactly one image, with    *)
(* the requested frame as content, for every valid input.                  *)
(***************************************************************************)
C1_FailureIsolation ==
    \A n \in 1..Len(calls) :
        LET c == calls[n]
        IN  /\ (Ended(c) /\ ~LoadFailed(c)) =>
                   c.fetched = UpTo(Len(c.videos))
            /\ c.pc = "done" =>
                   \A i \in 1..Len(c.videos) :
                       ValidInput(c.videos[i]) =>
                           /\ Cardinality(ImagesFrom(n, i)) = 1
                           /\ blobs[<<"blob", n, i>>] =
                                 <<"webp", c.videos[i].url, c.videos[i].frame>>

\* A finished batch in which an earlier input failed and a later, valid
\* input has its image.
C1_Witness ==
    \E n \in 1..Len(calls) :
        /\ calls[n].pc = "done"
        /\ \E i, j \in 1..Len(calls[n].videos) :
              /\ i < j
              /\ AlertsFor(n, i) # {}
              /\ ValidInput(calls[n].videos[j])
              /\ ImagesFrom(n, j) # {}

(***************************************************************************)
(* C2.  Scratch release: once every invocation has ended, the engine's     *)
(* file system holds no scratch file.                                      *)
(***************************************************************************)
C2_ScratchReleased ==
    (\A n \in 1..Len(calls) : calls[n].pc = "done") => ScratchFiles = {}

(***************************************************************************)
(* C3.  Single initialization: load() is started at most once in a page    *)
(* lifetime, at most one invocation waits for it, and no invocation waits  *)
(* for it once the engine is loaded.                                       *)
(***************************************************************************)
C3_LoadStartedAtMostOnce ==
    /\ ffmpeg.loads <= 1
    /\ Cardinality({n \in 1..Len(calls) : calls[n].pc = "load"}) <= 1
    /\ ffmpeg.loaded => \A n \in 1..Len(calls) : calls[n].pc # "load"

\* A second invocation runs on the engine the first one loaded.
C3_Witness ==
    /\ Len(calls) >= 2
    /\ calls[1].pc = "done"
    /\ calls[2].pc \in {"fetch", "body", "run", "done"}
    /\ ffmpeg.loads = 1

(***************************************************************************)
(* C4.  All-valid batches: a finished invocation whose inputs are all      *)
(* valid has as many results as inputs and raised no alert.                *)
(***************************************************************************)
C4_AllValidAllResults ==
    \A n \in 1..Len(calls) :
        LET c == calls[n]
        IN  (c.pc = "done" /\ \A i \in 1..Len(c.videos) : ValidInput(c.videos[i]))
                => /\ Len(c.newImages) = Len(c.videos)
                   /\ c.alerts = <<>>

\* A finished batch of two valid inputs.
C4_Witness ==
    \E n \in 1..Len(calls) :
        /\ calls[n].pc = "done"
        /\ Len(calls[n].videos) >= 2
        /\ \A i \in 1..Len(calls[n].videos) : ValidInput(calls[n].videos[i])
        /\ images = calls[n].newImages

(***************************************************************************)
(* C5.  A response with a non-success status fails the fetch step: its     *)
(* body is never written to the engine's file system or given to           *)
(* ffmpeg.run, and the input ends with an alert and without an image.      *)
(***************************************************************************)
C5_NonSuccessStatusFailsFetch ==
    /\ \A f \in ScratchFiles :
          Len(ffmpeg.fs[f]) = 2 => ResponseOk(ffmpeg.fs[f][2])
    /\ \A n \in 1..Len(calls) :
          LET c == calls[n]
          IN  /\ c.pc = "run" => ResponseOk(c.videos[c.i].url)
              /\ \A i \in Range(c.settled) :
                    ~ResponseOk(c.videos[i].url) =>
                        AlertsFor(n, i) # {} /\ ImagesFrom(n, i) = {}

(***************************************************************************)
(* C6.  Frame index out of range: a settled input whose video was fetched  *)
(* and whose frame index is at or past the video's frame count has an      *)
(* alert and no image; the valid inputs of the same batch have their       *)
(* images.                                                                 *)
(***************************************************************************)
FrameOutOfRange(v) ==
    /\ ~Unreachable(v.url)
    /\ ResponseOk(v.url)
    /\ IsVideo(ResponseBody(v.url))
    /\ v.frame >= FrameCount(ResponseBody(v.url))

C6_FrameOutOfRangeFails ==
    \A n \in 1..Len(calls) :
        LET c == calls[n]
        IN  \A i \in Range(c.settled) :
                /\ FrameOutOfRange(c.videos[i]) =>
                       AlertsFor(n, i) # {} /\ ImagesFrom(n, i) = {}
                /\ ValidInput(c.videos[i]) => ImagesFrom(n, i) # {}

(***************************************************************************)
(* C7.  One report per failed input: a settled input has either one image  *)
(* and no alert, or no image and exactly one alert, and that alert names   *)
(* the input's URL; an input not yet settled has neither; so alerts plus   *)
(* results count the settled inputs, all inputs once the batch is done.    *)
(***************************************************************************)
C7_OneReportPerFailure ==
    \A n \in 1..Len(calls) :
        LET c == calls[n]
        IN  /\ \A i \in 1..Len(c.videos) :
                  /\ Cardinality(AlertsFor(n, i)) + Cardinality(ImagesFrom(n, i))
                        = IF i \in Range(c.settled) THEN 1 ELSE 0
                  /\ \A k \in AlertsFor(n, i) : c.alerts[k].url = c.videos[i].url
            /\ \A k \in 1..Len(c.alerts) : c.alerts[k].at \in 1..Len(c.videos)
            /\ Len(c.alerts) + Len(c.newImages) = Len(c.settled)
            /\ c.pc = "done" => Len(c.alerts) + Len(c.newImages) = Len(c.videos)

\* A finished batch with two failed inputs, each with its own alert.
C7_Witness ==
    \E n \in 1..Len(calls) :
        /\ calls[n].pc = "done"
        /\ Len(calls[n].alerts) = 2
        /\ calls[n].alerts[1].url # calls[n].alerts[2].url

(***************************************************************************)
(* C8.  One extraction at a time: at most one invocation is running, at    *)
(* most one is between writing its input file and the end of that item,    *)
(* and a running invocation keeps isProcessing true, which keeps the       *)
(* Process button from starting another.                                   *)
(***************************************************************************)
Running(c) == c.pc \in {"load", "fetch", "body", "run"}

C8_OneExtractionAtATime ==
    /\ Cardinality({n \in 1..Len(calls) : Running(calls[n])}) <= 1
    /\ Cardinality({n \in 1..Len(calls) : calls[n].pc = "run"}) <= 1
    /\ (\E n \in 1..Len(calls) : Running(calls[n])) => isProcessing

\* A second batch extracting after the first one finished, with a download
\* of the first batch's images under way and the list edited meanwhile.
C8_Witness ==
    /\ Len(calls) >= 2
    /\ calls[1].pc = "done"
    /\ calls[2].pc = "run"
    /\ \E d \in 1..Len(downloads) : downloads[d].pc = "read"
    /\ videos # calls[2].videos

(***************************************************************************)
(* C9.  Sequential, in order: fetch is called for the positions 1, 2, ...  *)
(* in that order, never for a position before the one before it is         *)
(* settled, and the results are in the order of their positions.           *)
(***************************************************************************)
C9_SequentialInOrder ==
    \A n \in 1..Len(calls) :
        LET c == calls[n]
        IN  /\ c.fetched = UpTo(Len(c.fetched))
            /\ c.settled = UpTo(Len(c.settled))
            /\ Len(c.settled) \in {Len(c.fetched) - 1, Len(c.fetched)}
            /\ Running(c) /\ c.pc # "load" => Len(c.settled) = Len(c.fetched) - 1
            /\ \A k, l \in 1..Len(c.newImages) :
                  k < l => c.newImages[k].url[3] < c.newImages[l].url[3]

\* A finished batch with two results.
C9_Witness ==
    \E n \in 1..Len(calls) :
        /\ calls[n].pc = "done"
        /\ Len(calls[n].newImages) >= 2

(***************************************************************************)
(* The filename derivation on its own: lines 97-104 applied to an          *)
(* arbitrary input, every URL of at most MaxUrlLen characters over an      *)
(* alphabet holding both delimiters, and the URLs of the page model.       *)
(***************************************************************************)
Alphabet == {"/", ".", "a", "b"}

RECURSIVE UrlStrings(_)
UrlStrings(len) ==
    IF len = 0 THEN {""}
    ELSE LET shorter == UrlStrings(len - 1)
         IN  shorter \cup {s \o ch : s \in shorter, ch \in Alphabet}

InitFilename ==
    /\ videos \in {<<[url |-> u, frame |-> f]>> :
                      u \in UrlStrings(MaxUrlLen) \cup Urls, f \in 0..MaxFrame}
    /\ images = <<>>
    /\ isProcessing = FALSE
    /\ ffmpeg = [loaded |-> FALSE, loads |-> 0, fs |-> <<>>]
    /\ blobs = <<>>
    /\ calls = <<>>
    /\ downloads = <<>>
    /\ uuids = 0
    /\ events = 0

DeriveFilename ==
    /\ images = <<>>
    /\ images' = Push(images, [url |-> <<"blob", 0, 1>>,
                               filename |-> ImageFileName(videos[1].url)])
    /\ UNCHANGED <<videos, isProcessing, ffmpeg, blobs, calls, downloads, uuids,
                   events>>

SpecFilename == InitFilename /\ [][DeriveFilename]_vars

(***************************************************************************)
(* Vocabulary of C10: the derivation as the specification words it.        *)
(***************************************************************************)
\* The text after the final occurrence of delimiter d, all of s without d.
RECURSIVE AfterFinal(_, _)
AfterFinal(s, d) ==
    IF s = "" THEN ""
    ELSE IF Char(s, Len(s)) = d THEN ""
    ELSE AfterFinal(SubSeq(s, 1, Len(s) - 1), d) \o Char(s, Len(s))

Contains(s, d) == \E k \in 1..Len(s) : Char(s, k) = d

EndsWith(s, suffix) ==
    /\ Len(s) >= Len(suffix)
    /\ SubSeq(s, Len(s) - Len(suffix) + 1, Len(s)) = suffix

\* The final path segment without its extension, plus ".webp".  The
\* extension is the final '.' with the text after it; a name without '.',
\* or with nothing after its final '.', has none and is kept whole.
ExpectedFileName(url) ==
    LET base == AfterFinal(url, "/")
        ext  == AfterFinal(base, ".")
    IN  IF Contains(base, ".") /\ ext # ""
        THEN SubSeq(base, 1, Len(base) - Len(ext) - 1) \o ".webp"
        ELSE base \o ".webp"

\* The general rule, for the name derived in the current state.
DerivedByRule ==
    \A k \in 1..Len(images) :
        /\ images[k].filename = ExpectedFileName(videos[1].url)
        /\ EndsWith(images[k].filename, ".webp")

\* The name derived for url, when the current state derived one for it.
DerivesFor(url, name) ==
    \A k \in 1..Len(images) : videos[1].url = url => images[k].filename = name

(***************************************************************************)
(* C10 as stated: the derived filename is the text after the final '/' of  *)
(* the URL (the whole URL without '/'), without its last '.'-delimited     *)
(* extension, followed by ".webp"; it ends with ".webp", depends on the    *)
(* URL alone, and "https://x.com/a.b.c.mov" gives "a.b.webp" and           *)
(* "https://x.com/noext" gives "noext.webp".                               *)
(***************************************************************************)
C10_AsStated ==
    /\ DerivedByRule
    /\ DerivesFor("https://x.com/a.b.c.mov", "a.b.webp")
    /\ DerivesFor("https://x.com/noext", "noext.webp")

(***************************************************************************)
(* C10 as amended: the same rule, with "https://x.com/a.b.c.mov" giving    *)
(* "a.b.c.webp" (only the last extension, ".mov", is removed),             *)
(* "https://x.com/noext" giving "noext.webp" and                           *)
(* "https://x.com/a/clip.mp4" giving "clip.webp".                          *)
(***************************************************************************)
C10_FilenameDerivation ==
    /\ DerivedByRule
    /\ DerivesFor("https://x.com/a.b.c.mov", "a.b.c.webp")
    /\ DerivesFor("https://x.com/noext", "noext.webp")
    /\ DerivesFor("https://x.com/a/clip.mp4", "clip.webp")

\* The name derived for the URL with three '.' in its final segment.
C10_Witness ==
    /\ Len(images) = 1
    /\ calls = <<>>
    /\ videos[1].url = "https://x.com/a.b.c.mov"
    /\ videos[1].frame = MaxFrame
    /\ images[1].filename = "a.b.c.webp"

(***************************************************************************)
(* C11.  Wholesale replacement: once an invocation has finished, the held  *)
(* images are the results of the invocation that finished last, all made   *)
(* from that invocation's inputs and none from an earlier batch; they are  *)
(* empty when every input of that batch failed, and before any batch has   *)
(* finished.                                                               *)
(***************************************************************************)
Finished == {n \in 1..Len(calls) : calls[n].pc = "done"}

C11_ResultsReplaced ==
    IF Finished = {} THEN images = <<>>
    ELSE LET n == SetMax(Finished)
             c == calls[n]
         IN  /\ images = c.newImages
             /\ \A k \in 1..Len(images) :
                   /\ images[k].url[2] = n
                   /\ images[k].url[3] \in 1..Len(c.videos)
             /\ Len(c.alerts) = Len(c.videos) => images = <<>>

\* A second batch finished with every input failed, after a first batch
\* that had produced an image.
C11_Witness ==
    /\ Len(calls) >= 2
    /\ calls[1].pc = "done"
    /\ calls[1].newImages # <<>>
    /\ calls[2].pc = "done"
    /\ Len(calls[2].alerts) = Len(calls[2].videos)
    /\ images = <<>>

(***************************************************************************)
(* Vocabulary of C12: a list of images as names and bytes, and what        *)
(* unpacking an archive gives back.                                        *)
(***************************************************************************)
Listing(list) ==
    [k \in 1..Len(list) |->
        [name |-> list[k].filename, data |-> blobs[list[k].url]]]

Unpack(archive) == [e \in 1..Len(archive) |->
                       [name |-> archive[e].name, data |-> archive[e].data]]

DistinctNames(list) ==
    \A k, l \in 1..Len(list) : k # l => list[k].filename # list[l].filename

\* The last place of the list holding an image of that name.
LastNamed(list, name) ==
    SetMax({k \in 1..Len(list) : list[k].filename = name})

(***************************************************************************)
(* C12 as stated: every archive offered for download unpacks to the names  *)
(* and bytes of the list it was made from, one entry per image, also when  *)
(* two images of the list have the same filename.                          *)
(***************************************************************************)
C12_AsStated ==
    \A d \in 1..Len(downloads) :
        downloads[d].offered =>
            Unpack(downloads[d].archive) = Listing(downloads[d].images)

(***************************************************************************)
(* C12 as amended: an archive made from a list whose filenames are         *)
(* pairwise distinct unpacks to the names and bytes of the list, one entry *)
(* per image, in list order.  In general the archive has one entry per     *)
(* distinct filename of the list, carrying the bytes of the last image of  *)
(* that name.                                                              *)
(***************************************************************************)
C12_ArchiveRoundTrip ==
    \A d \in 1..Len(downloads) :
        LET r == downloads[d]
            u == Unpack(r.archive)
        IN  r.offered =>
              /\ DistinctNames(r.images) => u = Listing(r.images)
              /\ {u[e].name : e \in 1..Len(u)} =
                     {r.images[k].filename : k \in 1..Len(r.images)}
              /\ \A e, f \in 1..Len(u) : e # f => u[e].name # u[f].name
              /\ \A e \in 1..Len(u) :
                    u[e].data =
                        blobs[r.images[LastNamed(r.images, u[e].name)].url]

\* An archive offered for a list of two images with different names.
C12_Witness ==
    \E d \in 1..Len(downloads) :
        /\ downloads[d].offered
        /\ Len(downloads[d].images) = 2
        /\ DistinctNames(downloads[d].images)
        /\ Len(downloads[d].archive) = 2

(***************************************************************************)
(* C13.  Inputs fixed at submission: whatever edits are made while a       *)
(* batch is in flight, the list the invocation iterates over is the list   *)
(* as it was at the click, and what it fetches, writes to the engine,      *)
(* reports and produces belongs to that list: the file under extraction    *)
(* is the body of the submitted URL at the current position, each alert    *)
(* names the submitted URL of its position, each image has the filename    *)
(* and the frame of the submitted input of its position.                   *)
(***************************************************************************)
C13_InputsFixedAtSubmission ==
    \A n \in 1..Len(calls) :
        LET c == calls[n]
            s == c.submitted
        IN  /\ c.videos = s
            /\ Range(c.fetched) \subseteq 1..Len(s)
            /\ c.pc = "run" =>
                   ffmpeg.fs[c.inName] = ResponseBody(s[c.i].url)
            /\ \A k \in 1..Len(c.alerts) :
                   c.alerts[k].url = s[c.alerts[k].at].url
            /\ \A k \in 1..Len(c.newImages) :
                   LET i == c.newImages[k].url[3]
                   IN  /\ c.newImages[k].filename = ImageFileName(s[i].url)
                       /\ blobs[c.newImages[k].url] \in
                              {<<"webp", s[i].url, s[i].frame>>, <<>>}
            /\ c.pc = "done" =>
                   Len(c.alerts) + Len(c.newImages) = Len(s)

\* A batch extracting its last input from the submitted URL, after the user
\* changed that input's URL in the list.
C13_Witness ==
    \E n \in 1..Len(calls) :
        LET c == calls[n]
        IN  /\ c.pc = "run"
            /\ c.i = Len(c.submitted)
            /\ Len(videos) = Len(c.submitted)
            /\ videos[c.i].url # c.submitted[c.i].url
            /\ ffmpeg.fs[c.inName] = ResponseBody(c.submitted[c.i].url)

(***************************************************************************)
(* C14.  No partial archive: a download whose read of an image or whose    *)
(* archive generation failed has thrown and offers no archive; an archive  *)
(* is offered only by a download that finished, and it then has an entry   *)
(* for the filename of every image of the list.                            *)
(***************************************************************************)
C14_NoPartialArchive ==
    \A d \in 1..Len(downloads) :
        LET r == downloads[d]
        IN  /\ r.pc = "rejected" => ~r.offered /\ r.archive = <<>>
            /\ r.pc \in {"read", "generate"} => ~r.offered
            /\ r.offered =>
                  /\ r.pc = "done"
                  /\ \A k \in 1..Len(r.images) :
                        \E e \in 1..Len(r.archive) :
                            r.archive[e].name = r.images[k].filename

\* A download that threw at its second image, the first one already in the
\* zip, and offered nothing.
C14_Witness ==
    \E d \in 1..Len(downloads) :
        /\ downloads[d].pc = "rejected"
        /\ downloads[d].k = 2
        /\ Len(downloads[d].images) = 2
        /\ Len(downloads[d].zip) = 1
        /\ ~downloads[d].offered

(***************************************************************************)
(* C15.  removeVideoInput(index) removes exactly the input at index: every *)
(* step of removeVideoInput leaves the list one shorter, the old list with *)
(* that element deleted and the others in their order.                     *)
(***************************************************************************)
Deleted(list, index) ==
    [k \in 1..(Len(list) - 1) |-> IF k <= index THEN list[k] ELSE list[k + 1]]

C15_RemoveDeletesOne ==
    [][\A index \in 0..(MaxVideos - 1) :
          RemoveVideoInput(index) => videos' = Deleted(videos, index)]_vars

(***************************************************************************)
(* C16.  isProcessing is reset: an invocation of handleProcess that has    *)
(* returned or thrown, ffmpeg.load() having failed included, has set       *)
(* isProcessing back to false; so once every invocation has returned or    *)
(* thrown, isProcessing is false and the Process button is enabled.        *)
(***************************************************************************)
C16_ProcessingFlagReset ==
    (\A n \in 1..Len(calls) : Ended(calls[n])) => ~isProcessing

====
